---- MODULE Spec2Model ----
(***************************************************************************)
(* Model of the transaction-log pipeline:                                  *)
(*   logsProcessor.py             brace-aware block scanner, field decoder,*)
(*                                record assembly and the batch driver     *)
(*   generate_overdrawn_reports.py the overdrawn flag and report           *)
(*                                                                         *)
(* Text is a sequence of one-character strings.  Offsets (i, brace_start,  *)
(* j) are 0-based as in the Python source; At(s, k) reads s[k].            *)
(***************************************************************************)
EXTENDS Integers, Sequences, FiniteSets, TLC

\* ------------------------------------------------------------------------
\* Bounds of the explored input families
\* ------------------------------------------------------------------------
MaxLen == 5      \* pieces per text in the scanner family
MaxBody == 4     \* pieces per block body in the decoder family
MaxName == 5     \* pieces per file name in the file-name family
MaxFiles == 3    \* files per directory in the batch family
MaxVal == 4      \* pieces per raw value handed to _coerce_value
MaxRows == 3     \* rows of transactions.csv read by the overdrawn report

\* ------------------------------------------------------------------------
\* Character-level helpers (Python str methods used by the source)
\* ------------------------------------------------------------------------
At(s, k) == s[k + 1]

Digits == {"0", "1", "2", "3", "4", "5", "6", "7", "8", "9"}

DigitVal(c) ==
  CASE c = "0" -> 0 [] c = "1" -> 1 [] c = "2" -> 2 [] c = "3" -> 3
    [] c = "4" -> 4 [] c = "5" -> 5 [] c = "6" -> 6 [] c = "7" -> 7
    [] c = "8" -> 8 [] c = "9" -> 9

\* characters removed by str.strip() / str.rstrip()
Whitespace == {" ", "\n", "\t", "\r"}

\* line boundaries of str.splitlines()
LineBreaks == {"\n", "\r"}

RECURSIVE LStrip(_)
LStrip(s) ==
  IF s # <<>> /\ Head(s) \in Whitespace THEN LStrip(Tail(s)) ELSE s

RECURSIVE RStrip(_)
RStrip(s) ==
  IF s # <<>> /\ s[Len(s)] \in Whitespace
    THEN RStrip(SubSeq(s, 1, Len(s) - 1))
    ELSE s

Strip(s) == RStrip(LStrip(s))

LowerChar(c) ==
  CASE c = "T" -> "t" [] c = "R" -> "r" [] c = "U" -> "u" [] c = "E" -> "e"
    [] c = "F" -> "f" [] c = "A" -> "a" [] c = "L" -> "l" [] c = "S" -> "s"
    [] c = "B" -> "b"
    [] OTHER -> c

Lower(s) == [k \in 1..Len(s) |-> LowerChar(s[k])]

Contains(s, c) == \E k \in 1..Len(s) : s[k] = c

\* str.find(c, from) for a one-character needle: 0-based offset or -1
RECURSIVE FindChar(_, _, _)
FindChar(s, c, from) ==
  IF from >= Len(s) THEN -1
  ELSE IF At(s, from) = c THEN from
  ELSE FindChar(s, c, from + 1)

\* str.find(needle, from): 0-based offset of the first occurrence or -1
RECURSIVE Find(_, _, _)
Find(s, needle, from) ==
  IF from + Len(needle) > Len(s) THEN -1
  ELSE IF SubSeq(s, from + 1, from + Len(needle)) = needle THEN from
  ELSE Find(s, needle, from + 1)

\* s[a:b] with 0 <= a, b <= len(s)
Slice(s, a, b) == SubSeq(s, a + 1, b)

RECURSIVE Flatten(_)
Flatten(ss) == IF ss = <<>> THEN <<>> ELSE Head(ss) \o Flatten(Tail(ss))

\* all concatenations of at most n pieces
Concats(pieces, n) ==
  { Flatten(p) : p \in UNION { [1..m -> pieces] : m \in 0..n } }

\* ------------------------------------------------------------------------
\* FieldValue: what _coerce_value returns (str, int, float or bool)
\*   Float carries the decimal value num * 10^exp with num not divisible
\*   by 10 (exp = 0 when num = 0), so equal literals give equal values.
\* ------------------------------------------------------------------------
StringV(s) == [tag |-> "String", str |-> s, num |-> 0, exp |-> 0]
IntegerV(n) == [tag |-> "Integer", str |-> <<>>, num |-> n, exp |-> 0]
BooleanV(b) ==
  [tag |-> "Boolean", str |-> <<>>, num |-> IF b THEN 1 ELSE 0, exp |-> 0]

RECURSIVE NormFloat(_, _)
NormFloat(m, e) ==
  IF m = 0 THEN [tag |-> "Float", str |-> <<>>, num |-> 0, exp |-> 0]
  ELSE IF m % 10 = 0 THEN NormFloat(m \div 10, e + 1)
  ELSE [tag |-> "Float", str |-> <<>>, num |-> m, exp |-> e]

\* digitpart of the Python literal grammar: digit (["_"] digit)*
IsDigitPart(s) ==
  /\ s # <<>>
  /\ s[1] \in Digits
  /\ s[Len(s)] \in Digits
  /\ \A k \in 1..Len(s) : s[k] \in Digits \cup {"_"}
  /\ \A k \in 1..(Len(s) - 1) : ~(s[k] = "_" /\ s[k + 1] = "_")

RECURSIVE DigitsValue(_, _)
DigitsValue(s, acc) ==
  IF s = <<>> THEN acc
  ELSE IF Head(s) = "_" THEN DigitsValue(Tail(s), acc)
  ELSE DigitsValue(Tail(s), acc * 10 + DigitVal(Head(s)))

CountDigits(s) == Cardinality({k \in 1..Len(s) : s[k] \in Digits})

HasSign(s) == s # <<>> /\ Head(s) \in {"+", "-"}
Unsigned(s) == IF HasSign(s) THEN Tail(s) ELSE s
SignOf(s) == IF s # <<>> /\ Head(s) = "-" THEN -1 ELSE 1

\* int(val) succeeds: surrounding whitespace, optional sign, digitpart
IntAccepts(val) == IsDigitPart(Unsigned(Strip(val)))

IntValue(val) ==
  SignOf(Strip(val)) * DigitsValue(Unsigned(Strip(val)), 0)

\* the pieces of a float literal: mantissa before/after ".", exponent
FloatParts(val) ==
  LET body == Unsigned(Strip(val))
      epos == IF FindChar(body, "e", 0) # -1 THEN FindChar(body, "e", 0)
              ELSE FindChar(body, "E", 0)
      mant == IF epos = -1 THEN body ELSE Slice(body, 0, epos)
      expo == IF epos = -1 THEN <<>> ELSE Slice(body, epos + 1, Len(body))
      dot  == FindChar(mant, ".", 0)
  IN [hasExp |-> epos # -1,
      expo   |-> expo,
      hasDot |-> dot # -1,
      ip     |-> IF dot = -1 THEN mant ELSE Slice(mant, 0, dot),
      fp     |-> IF dot = -1 THEN <<>> ELSE Slice(mant, dot + 1, Len(mant))]

\* float(val) succeeds, for a val that contains "." (the only case in
\* which _coerce_value calls float); "inf"/"nan" hold no "." and so never
\* reach float().
FloatAccepts(val) ==
  LET p == FloatParts(val)
  IN /\ p.hasDot
     /\ p.ip = <<>> \/ IsDigitPart(p.ip)
     /\ p.fp = <<>> \/ IsDigitPart(p.fp)
     /\ ~(p.ip = <<>> /\ p.fp = <<>>)
     /\ p.hasExp => IsDigitPart(Unsigned(p.expo))

FloatValue(val) ==
  LET p == FloatParts(val)
      m == DigitsValue(p.ip \o p.fp, 0)
      e == IF p.hasExp
             THEN SignOf(p.expo) * DigitsValue(Unsigned(p.expo), 0)
             ELSE 0
  IN NormFloat(SignOf(Strip(val)) * m, e - CountDigits(p.fp))

\* lines 113-117: strip, drop one trailing comma, drop one enclosing
\* quote pair
NormalizeValue(s) ==
  LET v1 == Strip(s)
      v2 == IF v1 # <<>> /\ v1[Len(v1)] = ","
              THEN RStrip(SubSeq(v1, 1, Len(v1) - 1))
              ELSE v1
  IN IF Len(v2) >= 2 /\ v2[1] = v2[Len(v2)] /\ v2[1] \in {"'", "\""}
       THEN SubSeq(v2, 2, Len(v2) - 1)
       ELSE v2

\* lines 123-128: float() when a "." is present, int() otherwise, the
\* text itself on ValueError
NumericOrString(val) ==
  IF Contains(val, ".")
    THEN IF FloatAccepts(val) THEN FloatValue(val) ELSE StringV(val)
    ELSE IF IntAccepts(val) THEN IntegerV(IntValue(val)) ELSE StringV(val)

_coerce_value(s) ==
  LET val == NormalizeValue(s)
      low == Lower(val)
  IN IF low = <<"t", "r", "u", "e">> THEN BooleanV(TRUE)
     ELSE IF low = <<"f", "a", "l", "s", "e">> THEN BooleanV(FALSE)
     ELSE NumericOrString(val)

\* ------------------------------------------------------------------------
\* Field decoder (_parse_block_to_dict).  A dict is the sequence of its
\* items in insertion order, each key occurring once.
\* ------------------------------------------------------------------------
Item(key, val) == [k |-> key, v |-> val]

HasKey(d, key) == \E n \in 1..Len(d) : d[n].k = key

\* d[key]
Get(d, key) == d[CHOOSE n \in 1..Len(d) : d[n].k = key].v

\* d[key] = val: an existing key keeps its position, a new key is appended
DictSet(d, key, val) ==
  IF HasKey(d, key)
    THEN [n \in 1..Len(d) |-> IF d[n].k = key THEN Item(key, val) ELSE d[n]]
    ELSE Append(d, Item(key, val))

\* pieces of s between the separators in seps ("\r\n" counts once); no
\* trailing empty piece, as str.splitlines()
RECURSIVE SplitFrom(_, _, _, _, _)
SplitFrom(s, n, cur, acc, seps) ==
  IF n > Len(s) THEN (IF cur = <<>> THEN acc ELSE Append(acc, cur))
  ELSE IF s[n] = "\r" /\ n < Len(s) /\ s[n + 1] = "\n"
    THEN SplitFrom(s, n + 2, <<>>, Append(acc, cur), seps)
  ELSE IF s[n] \in seps
    THEN SplitFrom(s, n + 1, <<>>, Append(acc, cur), seps)
  ELSE SplitFrom(s, n + 1, Append(cur, s[n]), acc, seps)

SplitLinesOrCommas(block_text) ==
  SplitFrom(block_text, 1, <<>>, <<>>, LineBreaks \cup {","})

\* line 132: block_text.splitlines()
SplitLines(block_text) == SplitFrom(block_text, 1, <<>>, <<>>, LineBreaks)

StructuralTokens == {<<"{">>, <<"}">>, <<"}", ",">>}

\* lines 133-137: the stripped line carries a field
IsFieldLine(raw) ==
  LET line == Strip(raw)
  IN line # <<>> /\ line \notin StructuralTokens /\ Contains(line, ":")

\* lines 138-139: key, val = line.split(":", 1); key = key.strip()
LineKey(raw) ==
  LET line == Strip(raw) IN Strip(Slice(line, 0, FindChar(line, ":", 0)))

LineRawValue(raw) ==
  LET line == Strip(raw)
  IN Slice(line, FindChar(line, ":", 0) + 1, Len(line))

RECURSIVE ParseLines(_, _)
ParseLines(lines, out) ==
  IF lines = <<>> THEN out
  ELSE IF IsFieldLine(Head(lines))
    THEN ParseLines(Tail(lines),
           DictSet(out, LineKey(Head(lines)),
                   _coerce_value(LineRawValue(Head(lines)))))
  ELSE ParseLines(Tail(lines), out)

_parse_block_to_dict(block_text) == ParseLines(SplitLines(block_text), <<>>)

\* ------------------------------------------------------------------------
\* Record assembler
\* ------------------------------------------------------------------------
\* re.match against \d{4}-\d{2}-\d{2}: "d" stands for \d
DatePattern == <<"d", "d", "d", "d", "-", "d", "d", "-", "d", "d">>

RECURSIVE MatchAt(_, _, _)
MatchAt(pat, s, n) ==
  IF n > Len(pat) THEN TRUE
  ELSE IF n > Len(s) THEN FALSE
  ELSE IF pat[n] = "d" THEN s[n] \in Digits /\ MatchAt(pat, s, n + 1)
  ELSE s[n] = pat[n] /\ MatchAt(pat, s, n + 1)

FirstTenChars(sourcefile) ==
  SubSeq(sourcefile, 1, IF Len(sourcefile) < 10 THEN Len(sourcefile) ELSE 10)

_extract_date_from_sourcefile(sourcefile) ==
  IF MatchAt(DatePattern, sourcefile, 1)
    THEN SubSeq(sourcefile, 1, Len(DatePattern))
    ELSE <<>>

KeySourcefile == <<"s", "o", "u", "r", "c", "e", "f", "i", "l", "e">>
KeyDate == <<"d", "a", "t", "e">>

\* lines 163-164
Assemble(d, name) ==
  DictSet(DictSet(d, KeySourcefile, StringV(name)),
          KeyDate, StringV(_extract_date_from_sourcefile(name)))

\* lines 159-166: one Record per block whose dict is not empty
RECURSIVE RecordsOf(_, _)
RecordsOf(bs, name) ==
  IF bs = <<>> THEN <<>>
  ELSE LET d == _parse_block_to_dict(Head(bs))
       IN (IF d # <<>> THEN <<Assemble(d, name)>> ELSE <<>>)
            \o RecordsOf(Tail(bs), name)

\* ------------------------------------------------------------------------
\* Inputs
\* ------------------------------------------------------------------------
Marker == <<"t","r","a","n","s","a","c","t","i","o","n",":">>

\* texts quoted by the specification, and a few more in the same style
ExOneLine == Marker \o <<" ","{","k",":"," ","'","v","'",","," ","n",":"," ","2",","," ","o","k",":"," ","t","r","u","e","}">>
ExMeta == Marker \o <<" ","{","m","e","t","a",":"," ","'","{","\"","a","\"",":","1","}","'","}">>
ExEscaped == Marker \o <<" ","{","n","o","t","e",":"," ","'","i","t","\\","'","s"," ","f","i","n","e","'","}">>
ExTwoBlocks == Marker \o <<" ","{","a",":","1","}"," ",".",".","."," ">> \o Marker \o <<" ","{","b",":","2","}">>
ExUnterminated == Marker \o <<" ","{","a",":","1">>
ExEarlierThenUnterminated == Marker \o <<" ","{","a",":","1","}"," ">> \o Marker \o <<" ","{","b",":","2"," ">> \o Marker \o <<" ","{","c",":","3","}">>
ExPretty == Marker \o <<" ","{","\n"," "," ","i","d",":"," ","7",",","\n"," "," ","n","e","w","B","a","l","a","n","c","e",":"," ","-","1","2",".","5","0",",","\n"," "," ","m",":"," ","{","\n"," "," "," "," ","b",":"," ","2","\n"," "," ","}",",","\n"," "," ","o","k",":"," ","T","r","u","e","\n","}">>
ExDuplicate == Marker \o <<" ","{","\n"," ","a",":"," ","1",",","\n"," ","a",":"," ","2",",","\n"," ","d","a","t","e",":"," ","'","x","'","\n","}">>
ExShort == Marker \o <<"{","a",":","1","}">>

Examples ==
  {ExOneLine, ExMeta, ExEscaped, ExTwoBlocks, ExUnterminated,
   ExEarlierThenUnterminated, ExPretty, ExDuplicate, ExShort}

NameDated == <<"2","0","2","5","-","0","8","-","3","0","_","_","0","0","0","0","0","0",".","l","o","g">>
NameDated2 == <<"2","0","2","5","-","0","8","-","3","1","_","_","0","0","0","0","0","0",".","l","o","g">>
NameDated3 == <<"2","0","2","5","-","0","9","-","0","1","_","_","0","0","0","0","0","0",".","l","o","g">>
NameRun == <<"r","u","n",".","l","o","g">>
DotLog == <<".","l","o","g">>

\* a directory listing in the order sorted() gives it
DirNames == <<NameDated, NameDated2, NameDated3, NameRun>>

ScanPieces ==
  {Marker, <<"{">>, <<"}">>, <<"'">>, <<"\"">>, <<"\\">>, <<"a",":","1">>}

BodyPieces ==
  {<<"a",":">>, <<"d","a","t","e",":">>, <<"1">>, <<"x">>, <<"\n">>,
   <<",">>, <<"'">>, <<" ">>}

NamePieces == {<<"2","0","2","5">>, <<"-">>, <<"0","8">>, <<"3">>, <<"x">>}

BatchTexts == {ExShort, ExTwoBlocks}

File(n, r, t) == [name |-> n, readable |-> r, text |-> t]

FamScan == { <<File(NameRun, TRUE, t)>> : t \in Concats(ScanPieces, MaxLen) }

FamDecode ==
  { <<File(NameRun, TRUE, Marker \o <<" ", "{">> \o b \o <<"}">>)>> :
      b \in Concats(BodyPieces, MaxBody) }

FamName ==
  { <<File(n \o DotLog, TRUE, ExShort)>> : n \in Concats(NamePieces, MaxName) }

FamExamples == { <<File(NameDated, TRUE, t)>> : t \in Examples }

RECURSIVE Ascending(_)
Ascending(S) ==
  IF S = {} THEN <<>>
  ELSE LET m == CHOOSE x \in S : \A y \in S : x <= y
       IN <<m>> \o Ascending(S \ {m})

FamBatch ==
  { [n \in 1..Cardinality(S) |->
       File(DirNames[Ascending(S)[n]], f[Ascending(S)[n]][1],
            f[Ascending(S)[n]][2])] :
      S \in { T \in SUBSET (1..Len(DirNames)) :
                T # {} /\ Cardinality(T) <= MaxFiles },
      f \in [1..Len(DirNames) -> BOOLEAN \X BatchTexts] }

\* ------------------------------------------------------------------------
\* State
\* ------------------------------------------------------------------------
VARIABLES
  files,             \* sorted(extracted_root.glob("*.log")), with contents
  fi,                \* 1-based position of log_file in files
  pc,                \* position in write_transactions_to_csv and callees
  text,              \* text read from the current file
  i,                 \* search offset of _extract_transaction_blocks
  brace_start,       \* offset of the "{" that opens the current block
  j,                 \* offset of the character the scan reads next
  depth,             \* nesting depth counter
  in_sq,             \* inside a single-quoted span
  in_dq,             \* inside a double-quoted span
  esc,               \* escape pending
  blocks,            \* blocks matched so far in this text
  spans,             \* <<brace_start, j>> of each appended block
  exitBy,            \* which break left the while loop
  txns,              \* return value of parse_transactions_from_file
  all_transactions,  \* the accumulated corpus
  csv,               \* transactions.csv: [exists, rows]
  cv_pc, cv_in, cv_out,                       \* one call of _coerce_value
  od_pc, df, has_report_columns, report       \* generate_overdrawn_reports

scanVars == <<text, i, brace_start, j, depth, in_sq, in_dq, esc, blocks,
              spans, exitBy>>
mainVars == <<files, fi, pc, scanVars, txns, all_transactions, csv>>
coerceVars == <<cv_pc, cv_in, cv_out>>
odVars == <<od_pc, df, has_report_columns, report>>
vars == <<mainVars, coerceVars, odVars>>

NoCsv == [exists |-> FALSE, rows |-> <<>>]

IdleMain ==
  /\ files = <<>> /\ fi = 1 /\ pc = "idle"
  /\ text = <<>> /\ i = 0 /\ brace_start = -1 /\ j = 0 /\ depth = 0
  /\ in_sq = FALSE /\ in_dq = FALSE /\ esc = FALSE
  /\ blocks = <<>> /\ spans = <<>> /\ exitBy = "none"
  /\ txns = <<>> /\ all_transactions = <<>> /\ csv = NoCsv

IdleCoerce == cv_pc = "idle" /\ cv_in = <<>> /\ cv_out = StringV(<<>>)

IdleOd ==
  /\ od_pc = "idle" /\ df = <<>> /\ has_report_columns = TRUE
  /\ report = [exists |-> FALSE, rows |-> <<>>]

\* ------------------------------------------------------------------------
\* _extract_transaction_blocks
\* ------------------------------------------------------------------------
ScanState == [depth |-> depth, in_sq |-> in_sq, in_dq |-> in_dq,
              esc |-> esc, closed |-> FALSE]

\* the loop body with braces counted inside a double-quoted span
ScanStepBraceInQuote(ch, st) ==
  IF st.esc THEN [st EXCEPT !.esc = FALSE]
  ELSE IF ch = "\\" THEN [st EXCEPT !.esc = TRUE]
  ELSE IF ~st.in_dq /\ ch = "'" THEN [st EXCEPT !.in_sq = ~st.in_sq]
  ELSE IF ~st.in_sq /\ ch = "\"" THEN [st EXCEPT !.in_dq = ~st.in_dq]
  ELSE IF ~st.in_sq
    THEN IF ch = "{" THEN [st EXCEPT !.depth = st.depth + 1]
         ELSE IF ch = "}"
           THEN [st EXCEPT !.depth = st.depth - 1,
                           !.closed = (st.depth - 1 = 0)]
         ELSE st
  ELSE st

\* the loop body with the escaped character still interpreted
ScanStepEscapeFallsThrough(ch, st) ==
  LET s0 == [st EXCEPT !.esc = FALSE] IN
  IF ~st.esc /\ ch = "\\" THEN [st EXCEPT !.esc = TRUE]
  ELSE IF ~s0.in_dq /\ ch = "'" THEN [s0 EXCEPT !.in_sq = ~s0.in_sq]
  ELSE IF ~s0.in_sq /\ ch = "\"" THEN [s0 EXCEPT !.in_dq = ~s0.in_dq]
  ELSE IF ~s0.in_sq /\ ~s0.in_dq
    THEN IF ch = "{" THEN [s0 EXCEPT !.depth = s0.depth + 1]
         ELSE IF ch = "}"
           THEN [s0 EXCEPT !.depth = s0.depth - 1,
                           !.closed = (s0.depth - 1 = 0)]
         ELSE s0
  ELSE s0

\* lines 88-107: the body of the for loop for one character; closed is
\* the "depth == 0" test of line 104
ScanStep(ch, st) ==
  IF st.esc THEN [st EXCEPT !.esc = FALSE]
  ELSE IF ch = "\\" THEN [st EXCEPT !.esc = TRUE]
  ELSE IF ~st.in_dq /\ ch = "'" THEN [st EXCEPT !.in_sq = ~st.in_sq]
  ELSE IF ~st.in_sq /\ ch = "\"" THEN [st EXCEPT !.in_dq = ~st.in_dq]
  ELSE IF ~st.in_sq /\ ~st.in_dq
    THEN IF ch = "{" THEN [st EXCEPT !.depth = st.depth + 1]
         ELSE IF ch = "}"
           THEN [st EXCEPT !.depth = st.depth - 1,
                           !.closed = (st.depth - 1 = 0)]
         ELSE st
  ELSE st

ResumeInsideBlock(bs, close) == bs + 1

\* line 106: i = j + 1
ResumeOffset(bs, close) == close + 1

KeepPartialBlock(bl, t, bs) == Append(bl, Slice(t, bs + 1, Len(t)))

\* lines 108-110: the for loop ran out of text; blocks is returned as is
UnterminatedBlocks(bl, t, bs) == bl

\* lines 75-85: find the next marker and its opening brace
Locate ==
  /\ pc = "locate"
  /\ LET start == Find(text, Marker, i)
         bs == IF start = -1 THEN -1 ELSE FindChar(text, "{", start)
     IN IF start = -1
          THEN /\ pc' = "parse"
               /\ exitBy' = "no_marker"
               /\ UNCHANGED <<brace_start, j, depth, in_sq, in_dq, esc>>
        ELSE IF bs = -1
          THEN /\ pc' = "parse"
               /\ exitBy' = "no_brace"
               /\ UNCHANGED <<brace_start, j, depth, in_sq, in_dq, esc>>
        ELSE /\ pc' = "scan"
             /\ brace_start' = bs
             /\ j' = bs
             /\ depth' = 0
             /\ in_sq' = FALSE
             /\ in_dq' = FALSE
             /\ esc' = FALSE
             /\ UNCHANGED exitBy
  /\ UNCHANGED <<files, fi, text, i, blocks, spans, txns, all_transactions,
                 csv, coerceVars, odVars>>

\* lines 87-107: one iteration of the for loop
ScanChar ==
  /\ pc = "scan"
  /\ j < Len(text)
  /\ LET st == ScanStep(At(text, j), ScanState)
     IN /\ depth' = st.depth
        /\ in_sq' = st.in_sq
        /\ in_dq' = st.in_dq
        /\ esc' = st.esc
        /\ IF st.closed
             THEN /\ blocks' = Append(blocks, Slice(text, brace_start + 1, j))
                  /\ spans' = Append(spans, <<brace_start, j>>)
                  /\ i' = ResumeOffset(brace_start, j)
                  /\ pc' = "locate"
                  /\ UNCHANGED j
             ELSE /\ j' = j + 1
                  /\ UNCHANGED <<blocks, spans, i, pc>>
  /\ UNCHANGED <<files, fi, text, brace_start, exitBy, txns,
                 all_transactions, csv, coerceVars, odVars>>

\* lines 108-110: for ... else: break, then return blocks
ScanRanOut ==
  /\ pc = "scan"
  /\ j >= Len(text)
  /\ blocks' = UnterminatedBlocks(blocks, text, brace_start)
  /\ exitBy' = "unterminated"
  /\ pc' = "parse"
  /\ UNCHANGED <<files, fi, text, i, brace_start, j, depth, in_sq, in_dq,
                 esc, spans, txns, all_transactions, csv, coerceVars, odVars>>

\* ------------------------------------------------------------------------
\* parse_transactions_from_file and write_transactions_to_csv
\* ------------------------------------------------------------------------
\* lines 153-158: the file is read (undecodable bytes are ignored)
ReadOk ==
  /\ pc = "read"
  /\ fi <= Len(files)
  /\ files[fi].readable
  /\ text' = files[fi].text
  /\ i' = 0
  /\ blocks' = <<>>
  /\ spans' = <<>>
  /\ exitBy' = "none"
  /\ txns' = <<>>
  /\ brace_start' = -1 /\ j' = 0 /\ depth' = 0
  /\ in_sq' = FALSE /\ in_dq' = FALSE /\ esc' = FALSE
  /\ pc' = "locate"
  /\ UNCHANGED <<files, fi, all_transactions, csv, coerceVars, odVars>>

\* lines 153-156: read_text raises, the fallback read_text raises again,
\* and nothing on the way up (line 174) catches it
ReadFail ==
  /\ pc = "read"
  /\ fi <= Len(files)
  /\ ~files[fi].readable
  /\ pc' = "raised"
  /\ UNCHANGED <<files, fi, scanVars, txns, all_transactions, csv,
                 coerceVars, odVars>>

\* lines 159-166
ParseBlocks ==
  /\ pc = "parse"
  /\ txns' = RecordsOf(blocks, files[fi].name)
  /\ pc' = "extend"
  /\ UNCHANGED <<files, fi, scanVars, all_transactions, csv, coerceVars,
                 odVars>>

\* line 174
Extend ==
  /\ pc = "extend"
  /\ all_transactions' = all_transactions \o txns
  /\ fi' = fi + 1
  /\ pc' = "read"
  /\ UNCHANGED <<files, scanVars, txns, csv, coerceVars, odVars>>

\* lines 176-194: nothing is written for an empty corpus
WriteCsv ==
  /\ pc = "read"
  /\ fi > Len(files)
  /\ csv' = IF all_transactions = <<>> THEN NoCsv
            ELSE [exists |-> TRUE, rows |-> all_transactions]
  /\ pc' = "done"
  /\ UNCHANGED <<files, fi, scanVars, txns, all_transactions, coerceVars,
                 odVars>>

\* line 168-172: the driver starts on a directory
Init ==
  /\ \/ files \in FamScan
     \/ files \in FamDecode
     \/ files \in FamName
     \/ files \in FamExamples
     \/ files \in FamBatch
  /\ fi = 1 /\ pc = "read"
  /\ text = <<>> /\ i = 0 /\ brace_start = -1 /\ j = 0 /\ depth = 0
  /\ in_sq = FALSE /\ in_dq = FALSE /\ esc = FALSE
  /\ blocks = <<>> /\ spans = <<>> /\ exitBy = "none"
  /\ txns = <<>> /\ all_transactions = <<>> /\ csv = NoCsv
  /\ IdleCoerce /\ IdleOd

Next ==
  \/ ReadOk
  \/ ReadFail
  \/ Locate
  \/ ScanChar
  \/ ScanRanOut
  \/ ParseBlocks
  \/ Extend
  \/ WriteCsv

Spec == Init /\ [][Next]_vars

\* ------------------------------------------------------------------------
\* _coerce_value called on its own
\* ------------------------------------------------------------------------
ValuePieces ==
  {<<"1">>, <<"0">>, <<"-">>, <<"+">>, <<".">>, <<"e">>, <<"_">>, <<" ">>,
   <<"'">>, <<",">>, <<"T","r","u","e">>}

\* lines 112-128
CoerceCall ==
  /\ cv_pc = "call"
  /\ cv_out' = _coerce_value(cv_in)
  /\ cv_pc' = "returned"
  /\ UNCHANGED <<cv_in, mainVars, odVars>>

InitCoerce ==
  /\ cv_in \in Concats(ValuePieces, MaxVal)
  /\ cv_pc = "call"
  /\ cv_out = StringV(<<>>)
  /\ IdleMain /\ IdleOd

NextCoerce == CoerceCall

SpecCoerce == InitCoerce /\ [][NextCoerce]_vars

\* ------------------------------------------------------------------------
\* generate_overdrawn_reports.main
\*   A newBalance cell of transactions.csv is a number, empty (NaN) or
\*   some other text; a column holding text is compared as objects.
\* ------------------------------------------------------------------------
Num(n) == [kind |-> "num", v |-> n]
NaN == [kind |-> "nan", v |-> 0]
Txt == [kind |-> "str", v |-> 0]

BalanceValues == {Num(-2), Num(-1), Num(0), Num(1), NaN, Txt}

Row(n, nb) == [id |-> n, newBalance |-> nb]

Frames ==
  UNION { { [n \in 1..m |-> Row(n, b[n])] : b \in [1..m -> BalanceValues] } :
          m \in 0..MaxRows }

FlagNotPositive(nb) == IF nb.kind = "num" /\ nb.v <= 0 THEN "Y" ELSE "N"

\* lines 31-32: (newBalance < 0) mapped to "Y"/"N"; NaN < 0 is False
OverdrawnFlag(nb) == IF nb.kind = "num" /\ nb.v < 0 THEN "Y" ELSE "N"

ComparableColumn(frame) == \A n \in 1..Len(frame) : frame[n].newBalance.kind # "str"

RECURSIVE SelectFlagged(_)
SelectFlagged(frame) ==
  IF frame = <<>> THEN <<>>
  ELSE (IF Head(frame).Overdrawn = "Y"
          THEN <<[transaction_id |-> Head(frame).id,
                  newBalance |-> Head(frame).newBalance,
                  Overdrawn |-> Head(frame).Overdrawn]>>
          ELSE <<>>) \o SelectFlagged(Tail(frame))

\* lines 31-32
FlagRows ==
  /\ od_pc = "loaded"
  /\ ComparableColumn(df)
  /\ df' = [n \in 1..Len(df) |->
              [id |-> df[n].id, newBalance |-> df[n].newBalance,
               Overdrawn |-> OverdrawnFlag(df[n].newBalance)]]
  /\ od_pc' = "flagged"
  /\ UNCHANGED <<has_report_columns, report, mainVars, coerceVars>>

\* line 31: "<" between str and int raises TypeError
FlagRaises ==
  /\ od_pc = "loaded"
  /\ ~ComparableColumn(df)
  /\ od_pc' = "raised"
  /\ UNCHANGED <<df, has_report_columns, report, mainVars, coerceVars>>

\* lines 35-45
WriteReport ==
  /\ od_pc = "flagged"
  /\ has_report_columns
  /\ report' = [exists |-> TRUE, rows |-> SelectFlagged(df)]
  /\ od_pc' = "written"
  /\ UNCHANGED <<df, has_report_columns, mainVars, coerceVars>>

\* lines 36-43: a listed column that transactions.csv lacks raises KeyError
SelectRaises ==
  /\ od_pc = "flagged"
  /\ ~has_report_columns
  /\ od_pc' = "raised"
  /\ UNCHANGED <<df, has_report_columns, report, mainVars, coerceVars>>

\* lines 47-79: the aggregate reports go to other files
WriteAggregates ==
  /\ od_pc = "written"
  /\ od_pc' = "done"
  /\ UNCHANGED <<df, has_report_columns, report, mainVars, coerceVars>>

\* lines 10-28: reports/ is flushed and transactions.csv loaded
InitOverdrawn ==
  /\ df \in Frames
  /\ has_report_columns \in BOOLEAN
  /\ od_pc = "loaded"
  /\ report = [exists |-> FALSE, rows |-> <<>>]
  /\ IdleMain /\ IdleCoerce

NextOverdrawn ==
  \/ FlagRows
  \/ FlagRaises
  \/ WriteReport
  \/ SelectRaises
  \/ WriteAggregates

SpecOverdrawn == InitOverdrawn /\ [][NextOverdrawn]_vars

\* ------------------------------------------------------------------------
\* Properties
\* ------------------------------------------------------------------------
CurrentName == files[fi].name

Key(c) == <<c>>

ExOneLineRest == <<"'","v","'",","," ","n",":"," ","2",","," ","o","k",":"," ","t","r","u","e">>
ExMetaInner == <<"m","e","t","a",":"," ","'","{","\"","a","\"",":","1","}","'">>
ExEscapedInner == <<"n","o","t","e",":"," ","'","i","t","\\","'","s"," ","f","i","n","e","'">>
DateOfNameDated == <<"2","0","2","5","-","0","8","-","3","0">>

OneLine(b) == \A n \in 1..Len(b) : b[n] \notin LineBreaks

\* C1 as stated: the one-line body k: 'v', n: 2, ok: true decodes to the
\* three typed fields k = "v", n = 2, ok = true plus sourcefile and date.
C1_OneLineSplitsAtCommas ==
  (pc = "extend" /\ text = ExOneLine) =>
    txns = << << Item(Key("k"), StringV(<<"v">>)),
                 Item(Key("n"), IntegerV(2)),
                 Item(<<"o", "k">>, BooleanV(TRUE)),
                 Item(KeySourcefile, StringV(CurrentName)),
                 Item(KeyDate, StringV(_extract_date_from_sourcefile(CurrentName))) >> >>

\* C1 amended: the one-line body k: 'v', n: 2, ok: true decodes to the
\* single field k = String "'v', n: 2, ok: true" (the rest of the line
\* after its first colon) plus sourcefile and date; a body is split into
\* fields at line breaks only, so when every block of a text is one line
\* each Record holds at most one decoded field besides the two provenance
\* fields.
C1_OneLineIsOneField ==
  /\ (pc = "extend" /\ text = ExOneLine) =>
       txns = << << Item(Key("k"), StringV(ExOneLineRest)),
                    Item(KeySourcefile, StringV(NameDated)),
                    Item(KeyDate, StringV(DateOfNameDated)) >> >>
  /\ (pc = "extend" /\ \A n \in 1..Len(blocks) : OneLine(blocks[n])) =>
       \A m \in 1..Len(txns) : Len(txns[m]) <= 3

C1_Witness == pc = "extend" /\ text = ExOneLine /\ Len(txns) = 1

\* C2: a brace read while a quote span is open leaves depth (and blocks)
\* unchanged; a block is appended only at an unquoted, unescaped "}" that
\* takes depth from 1 to 0, and it is the text between the opening brace
\* and that "}"; transaction: {meta: '{"a":1}'} yields meta: '{"a":1}'.
C2_QuotedBracesDoNotCount ==
  [][ /\ (pc = "scan" /\ j < Len(text) /\ (in_sq \/ in_dq)
            /\ At(text, j) \in {"{", "}"}) =>
           (depth' = depth /\ blocks' = blocks /\ pc' = "scan")
      /\ (pc = "scan" /\ blocks' # blocks) =>
           /\ j < Len(text)
           /\ At(text, j) = "}"
           /\ ~in_sq /\ ~in_dq /\ ~esc
           /\ depth = 1 /\ depth' = 0
           /\ blocks' = Append(blocks, Slice(text, brace_start + 1, j))
      /\ (pc' = "parse" /\ text' = ExMeta) => blocks' = <<ExMetaInner>>
    ]_vars

C2_Witness == pc = "parse" /\ text = ExMeta /\ blocks = <<ExMetaInner>>

\* C3: a backslash sets the escape flag; the character read while the flag
\* is set, whatever it is, clears the flag and leaves depth, both quote
\* flags and blocks unchanged; transaction: {note: 'it\'s fine'} closes at
\* the outer brace.
C3_EscapedCharIsLiteral ==
  [][ /\ (pc = "scan" /\ j < Len(text) /\ esc) =>
           /\ ~esc'
           /\ depth' = depth /\ in_sq' = in_sq /\ in_dq' = in_dq
           /\ blocks' = blocks /\ j' = j + 1 /\ pc' = "scan"
      /\ (pc = "scan" /\ j < Len(text) /\ ~esc /\ At(text, j) = "\\") =>
           /\ esc'
           /\ depth' = depth /\ in_sq' = in_sq /\ in_dq' = in_dq
           /\ blocks' = blocks /\ j' = j + 1 /\ pc' = "scan"
      /\ (pc = "scan" /\ j < Len(text) /\ ~esc /\ At(text, j) # "\\") => ~esc'
      /\ (pc' = "parse" /\ text' = ExEscaped) => blocks' = <<ExEscapedInner>>
    ]_vars

C3_Witness ==
  /\ pc = "scan" /\ text = ExEscaped /\ j < Len(text)
  /\ esc /\ in_sq /\ At(text, j) = "'"

\* C4: when the text runs out before depth returns to zero the scan ends
\* without an error, the blocks matched so far are returned unchanged, all
\* of them closed before the unterminated opening brace, and the Records
\* of those earlier blocks are still returned.
C4_UnterminatedKeepsEarlierBlocks ==
  [][ /\ (pc = "scan" /\ j >= Len(text)) =>
           /\ blocks' = blocks /\ spans' = spans
           /\ pc' = "parse" /\ exitBy' = "unterminated"
      /\ (pc' \in {"parse", "extend"} /\ exitBy' = "unterminated") =>
           /\ Len(blocks') = Len(spans')
           /\ \A n \in 1..Len(spans') :
                /\ spans'[n][2] < brace_start'
                /\ blocks'[n] = Slice(text', spans'[n][1] + 1, spans'[n][2])
      /\ (pc = "parse" /\ exitBy = "unterminated") => pc' = "extend"
      /\ (pc' = "extend" /\ text' = ExUnterminated) => txns' = <<>>
      /\ (pc' = "extend" /\ text' = ExEarlierThenUnterminated) =>
           txns' = << << Item(Key("a"), IntegerV(1)),
                         Item(KeySourcefile, StringV(NameDated)),
                         Item(KeyDate, StringV(DateOfNameDated)) >> >>
    ]_vars

C4_Witness ==
  /\ pc = "extend" /\ exitBy = "unterminated"
  /\ text = ExEarlierThenUnterminated /\ Len(txns) = 1

\* C5: the n-th block starts at the first "{" after the first marker found
\* at or after the offset just past the previous block's closing brace, so
\* blocks do not overlap and appear left to right; the search offset after
\* a block is the offset just past its closing brace; Records keep that
\* order.
C5_BlocksLeftToRight ==
  /\ Len(spans) = Len(blocks)
  /\ \A n \in 1..Len(spans) :
       LET from == IF n = 1 THEN 0 ELSE spans[n - 1][2] + 1
           m == Find(text, Marker, from)
       IN /\ m # -1
          /\ spans[n][1] = FindChar(text, "{", m)
          /\ spans[n][1] < spans[n][2]
          /\ At(text, spans[n][2]) = "}"
          /\ blocks[n] = Slice(text, spans[n][1] + 1, spans[n][2])
  /\ \A n \in 1..(Len(spans) - 1) : spans[n][2] < spans[n + 1][1]
  /\ (pc = "locate" /\ spans # <<>>) => i = spans[Len(spans)][2] + 1
  /\ pc = "extend" => Len(txns) <= Len(blocks)
  /\ (pc = "extend" /\ text = ExTwoBlocks) =>
       txns = << Assemble(<<Item(Key("a"), IntegerV(1))>>, CurrentName),
                 Assemble(<<Item(Key("b"), IntegerV(2))>>, CurrentName) >>

C5_Witness == pc = "extend" /\ text = ExTwoBlocks /\ Len(txns) = 2

\* C6 as stated: an Integer or Float comes back only when the normalized
\* value is an optional "-", digits and at most one ".", Float exactly
\* when a "." is present.
StrictNumeric(val) ==
  LET body == IF val # <<>> /\ Head(val) = "-" THEN Tail(val) ELSE val
  IN /\ \A n \in 1..Len(body) : body[n] \in Digits \cup {"."}
     /\ \E n \in 1..Len(body) : body[n] \in Digits
     /\ Cardinality({n \in 1..Len(body) : body[n] = "."}) <= 1

C6_NumericOnlyForStrictGrammar ==
  (cv_pc = "returned" /\ cv_out.tag \in {"Integer", "Float"}) =>
    /\ StrictNumeric(NormalizeValue(cv_in))
    /\ cv_out.tag = "Float" <=> Contains(NormalizeValue(cv_in), ".")

\* C7 as stated: a run over a directory in which some file cannot be read
\* still visits every readable file and writes what it accumulated.
C7_UnreadableFileSkipped ==
  pc \in {"done", "raised"} =>
    /\ \A n \in 1..Len(files) : files[n].readable => n < fi
    /\ csv.rows = all_transactions

\* C8: every Record returned has sourcefile = the file's name and date =
\* the first 10 characters of the name when it starts with four digits,
\* "-", two digits, "-", two digits, and "" otherwise.
IsDatePrefixed(name) ==
  /\ Len(name) >= 10
  /\ \A n \in {1, 2, 3, 4, 6, 7, 9, 10} : name[n] \in Digits
  /\ name[5] = "-"
  /\ name[8] = "-"

C8_ProvenanceFields ==
  pc = "extend" =>
    \A n \in 1..Len(txns) :
      /\ HasKey(txns[n], KeySourcefile)
      /\ Get(txns[n], KeySourcefile) = StringV(CurrentName)
      /\ HasKey(txns[n], KeyDate)
      /\ Get(txns[n], KeyDate) =
           StringV(IF IsDatePrefixed(CurrentName)
                     THEN SubSeq(CurrentName, 1, 10) ELSE <<>>)
      /\ CurrentName = NameDated =>
           Get(txns[n], KeyDate) = StringV(DateOfNameDated)
      /\ CurrentName = NameRun => Get(txns[n], KeyDate) = StringV(<<>>)

C8_Witness ==
  /\ pc = "extend" /\ txns # <<>> /\ IsDatePrefixed(CurrentName)
  /\ Len(CurrentName) > 10

\* C9 as stated: every line of a block that is not empty and not a
\* structural brace token shows up in the block's Record under its own
\* name with its own decoded value.
HasFields(b) == _parse_block_to_dict(b) # <<>>

C9_NoFieldDropped ==
  pc = "extend" =>
    LET kept == SelectSeq(blocks, HasFields)
    IN /\ Len(txns) = Len(kept)
       /\ \A n \in 1..Len(kept) :
            \A m \in 1..Len(SplitLines(kept[n])) :
              LET raw == SplitLines(kept[n])[m]
              IN IsFieldLine(raw) =>
                   /\ HasKey(txns[n], LineKey(raw))
                   /\ Get(txns[n], LineKey(raw)) =
                        _coerce_value(LineRawValue(raw))

\* C10: the overdrawn report holds exactly the rows whose newBalance is
\* below zero, in order, and every row's flag is "Y" exactly when its
\* newBalance is below zero.
BelowZero(nb) == nb.kind = "num" /\ nb.v < 0

RowBelowZero(r) == BelowZero(r.newBalance)

C10_OverdrawnFlagConsistent ==
  /\ od_pc \in {"flagged", "written", "done"} =>
       \A n \in 1..Len(df) :
         df[n].Overdrawn = (IF BelowZero(df[n].newBalance) THEN "Y" ELSE "N")
  /\ od_pc \in {"written", "done"} =>
       LET neg == SelectSeq(df, RowBelowZero)
       IN /\ report.exists
          /\ Len(report.rows) = Len(neg)
          /\ \A n \in 1..Len(neg) :
               /\ report.rows[n].transaction_id = neg[n].id
               /\ report.rows[n].newBalance = neg[n].newBalance
               /\ report.rows[n].Overdrawn = "Y"

C10_Witness ==
  /\ od_pc = "written"
  /\ Len(report.rows) >= 1
  /\ Len(report.rows) < Len(df)

====
